---- MODULE Spec2Model ----
(***************************************************************************)
(* Model of src/plotter.c: the block list (memoryBlock), the memory        *)
(* manager reallocMemory, the teardown destroyMemory and the plotting loop *)
(* printGraph.                                                             *)
(*                                                                         *)
(* The linked list is a sequence of blocks, the head first; a pointer to   *)
(* a block is its index, the NULL block pointer is 0 (prev) or an index    *)
(* past the end (block).  Every malloc returns a fresh address; address 0  *)
(* is NULL.  Sizes are bytes, kept at their real magnitude.                *)
(*                                                                         *)
(* Specifications:                                                         *)
(*   Spec        any sequence of reallocMemory calls on the list built by  *)
(*               lines 170-175, with arbitrary (totalSpace, requested);    *)
(*   DriverSpec  printGraph: the loop of lines 177-186 followed by the     *)
(*               teardown of lines 188-189;                                *)
(*   FailSpec    as Spec, where one malloc of a call may return NULL;      *)
(*   TermSpec    printGraph with a sample function of x and no bound on    *)
(*               the number of iterations, under weak fairness.            *)
(***************************************************************************)
EXTENDS Integers, Sequences, FiniteSets

VARIABLES ledger,    \* the block list, head first: <<[node, sz, mem], ...>>
          nextAddr,  \* the next address malloc returns
          events,    \* what the last reallocMemory call did (calls, mallocs, frees)
          calls,     \* history: the (totalSpace, requested) of every top-level call
          pc,        \* position of printGraph: "loop", "done", "crashed"
          x,         \* printGraph's x, counted in multiples of a dyadic quantum
          totMem,    \* printGraph's totMem
          cfg,       \* printGraph's parameters
          freed      \* the frees made by the teardown, in order

vars == <<ledger, nextAddr, events, calls, pc, x, totMem, cfg, freed>>

----------------------------------------------------------------------------
(* Bounds of the model *)

MaxCalls == 3      \* Spec: number of reallocMemory calls in a run
MaxSample == 4     \* DriverSpec: largest sample y (in quanta)
MaxDomain == 2     \* DriverSpec: largest maxX (in quanta)
MaxFailCalls == 2  \* FailSpec: number of reallocMemory calls in a run
MaxOom == 3        \* FailSpec: the latest malloc of a call that may fail
MaxStep == 2       \* TermSpec: largest step (in quanta)
MaxKept == 2       \* TermSpec: number of calls the history keeps

\* the totals Spec passes as totalSpace and requested
Totals == {0, 500000, 2621440, 16777217}

\* the totals FailSpec passes as totalSpace and requested
FailTotals == {0, 500000, 2621440}

\* the memory budgets DriverSpec is run with
Budgets == {1000000, 2621440}

\* the memory budgets TermSpec is run with
TermBudgets == {1000000}

----------------------------------------------------------------------------
(* Program constants *)

NULL == 0
HeadNode == 1
NodeSize == 24
Ceiling == 1048576
FloatMantissa == 16777216

----------------------------------------------------------------------------
(* Helpers *)

RECURSIVE SumSizes(_)
SumSizes(list) ==
    IF list = <<>> THEN 0 ELSE Head(list).sz + SumSizes(Tail(list))

RECURSIVE LiveTotal(_)
LiveTotal(list) ==
    IF list = <<>> THEN 0
    ELSE (IF Head(list).mem # NULL THEN Head(list).sz ELSE 0) + LiveTotal(Tail(list))

RemoveAt(list, i) == SubSeq(list, 1, i - 1) \o SubSeq(list, i + 1, Len(list))

\* lines 109-113
InsertAfterHead_atEnd(list, b) == Append(list, b)
InsertAfterHead(list, b) == <<list[1]>> \o <<b>> \o Tail(list)

CallEv(totalSpace, requested) ==
    [op |-> "call", totalSpace |-> totalSpace, requested |-> requested]
MallocEv(kind, size, addr) ==
    [op |-> "malloc", kind |-> kind, sz |-> size, addr |-> addr]
FreeEv(kind, addr) ==
    [op |-> "free", kind |-> kind, addr |-> addr]

\* the number of malloc calls a log records
MallocsMade(log) == Cardinality({i \in DOMAIN log : log[i].op = "malloc"})

\* (float)n for a non-negative integer n: round to nearest, ties to even,
\* with a 24-bit significand
RECURSIVE Ulp(_)
Ulp(n) == IF n < FloatMantissa THEN 1 ELSE 2 * Ulp(n \div 2)

ToFloat(n) ==
    LET u == Ulp(n)
        q == n \div u
        r == n % u
    IN  IF 2 * r > u \/ (2 * r = u /\ q % 2 = 1) THEN (q + 1) * u ELSE q * u

----------------------------------------------------------------------------
(* reallocMemory *)

\* line 88
Grows_orEqual(totalSpace, requested) == requested >= totalSpace
Grows(totalSpace, requested) == requested > totalSpace

\* line 116
Shrinks(totalSpace, requested) == requested < totalSpace

\* line 91
NeedsSplit_wide(delta) == delta > 2 * Ceiling
NeedsSplit(delta) == delta > Ceiling

\* lines 92-96: iterations = (float)delta / (1024*1024) is exact after the
\* conversion (division by a power of two); spans is its ceiling
Spans(delta) ==
    LET f == ToFloat(delta)
        spans == f \div Ceiling
    IN  IF f % Ceiling # 0 THEN spans + 1 ELSE spans

\* line 99: the requested total of every sub-step (integer division)
SubTarget(totalSpace, delta, spans) == totalSpace + delta \div spans

\* line 124
ReleasesWhole_strict(b, delta) == b.sz < delta
ReleasesWhole(b, delta) == b.sz <= delta

\* line 127
IsFirst_never(prev) == FALSE
IsFirst(prev) == prev = NULL

\* lines 141-142
TrimmedSize_keep(b, delta) == delta
TrimmedSize(b, delta) == b.sz - delta

\* malloc: a fresh address, or NULL when this is the malloc of the call
\* that fails (m.oom = 0: none fails)
Alloc(m) == IF MallocsMade(m.log) + 1 = m.oom THEN NULL ELSE m.next

\* the state after a malloc of the given kind and size that returned addr
Malloced(m, kind, size, addr) ==
    [m EXCEPT !.next = m.next + 1, !.log = Append(m.log, MallocEv(kind, size, addr))]

\* lines 102-114: one growth step without split.  No malloc result is
\* tested: a NULL block memory is stored as it is; a NULL node is stored in
\* memory->next (line 110) and written through (line 111), a fault
GrowStep(m, delta) ==
    LET fill == m.list[1].mem = NULL
        m1 == IF fill
              THEN [Malloced(m, "mem", delta, Alloc(m))
                        EXCEPT !.list[1] = [@ EXCEPT !.mem = Alloc(m), !.sz = delta]]
              ELSE m
        nodeAddr == Alloc(m1)
        m2 == Malloced(m1, "node", NodeSize, nodeAddr)
        memAddr  == Alloc(m2)
        newBlock == [node |-> nodeAddr, sz |-> delta, mem |-> memAddr]
    IN  IF nodeAddr = NULL
        THEN [m2 EXCEPT !.list = <<m1.list[1]>>, !.fault = TRUE]
        ELSE [Malloced(m2, "mem", delta, memAddr)
                  EXCEPT !.list = InsertAfterHead(m1.list, newBlock)]

\* line 120
WalkDone_never(delta) == FALSE
WalkDone(delta) == delta = 0

\* lines 119-150: the deallocation walk
RECURSIVE ShrinkWalk(_, _, _, _)
ShrinkWalk(m, block, prev, delta) ==
    IF block > Len(m.list) THEN m
    ELSE IF WalkDone(delta) THEN m
    ELSE LET b == m.list[block] IN
         IF b.mem # NULL
         THEN IF ReleasesWhole(b, delta)
              THEN IF ~IsFirst(prev)
                   THEN ShrinkWalk([m EXCEPT !.list = RemoveAt(m.list, block),
                                             !.log = m.log \o <<FreeEv("mem", b.mem),
                                                                FreeEv("node", b.node)>>],
                                   block, prev, delta - b.sz)
                   ELSE ShrinkWalk([m EXCEPT !.list[block] = [@ EXCEPT !.mem = NULL, !.sz = 0],
                                             !.log = Append(m.log, FreeEv("mem", b.mem))],
                                   block + 1, block, delta - b.sz)
              ELSE LET m1 == [m EXCEPT !.log = Append(m.log, FreeEv("mem", b.mem))] IN
                   [Malloced(m1, "mem", TrimmedSize(b, delta), Alloc(m1))
                        EXCEPT !.list[block] =
                                   [@ EXCEPT !.mem = Alloc(m1), !.sz = TrimmedSize(b, delta)]]
         ELSE ShrinkWalk(m, block + 1, block, delta)

\* lines 83-154
RECURSIVE reallocMemory(_, _, _)
RECURSIVE SplitLoop(_, _, _, _, _)

\* lines 98-99; memory is the head, which exists (the conjunct also makes
\* the list of one iteration a value before the next iteration starts); a
\* fault ends the run
SplitLoop(m, i, spans, totalSpace, sub) ==
    IF i < spans /\ Len(m.list) >= 1 /\ ~m.fault
    THEN SplitLoop(reallocMemory(m, totalSpace, sub), i + 1, spans, totalSpace, sub)
    ELSE m

reallocMemory(m0, totalSpace, requested) ==
    LET m == [m0 EXCEPT !.log = Append(m0.log, CallEv(totalSpace, requested))] IN
    IF Grows(totalSpace, requested)
    THEN LET delta == requested - totalSpace IN
         IF NeedsSplit(delta)
         THEN SplitLoop(m, 0, Spans(delta), totalSpace,
                        SubTarget(totalSpace, delta, Spans(delta)))
         ELSE GrowStep(m, delta)
    ELSE IF Shrinks(totalSpace, requested)
    THEN ShrinkWalk(m, 1, NULL, totalSpace - requested)
    ELSE m

\* the state a top-level call starts from; oom is the malloc that fails
Entry(oom) ==
    [list |-> ledger, next |-> nextAddr, log |-> <<>>, oom |-> oom, fault |-> FALSE]

\* one top-level call of reallocMemory on the current list, every malloc
\* succeeding
Call(totalSpace, requested) ==
    LET r == reallocMemory(Entry(0), totalSpace, requested)
    IN  /\ ledger' = r.list
        /\ nextAddr' = r.next
        /\ events' = r.log
        /\ calls' = Append(calls, [totalSpace |-> totalSpace, requested |-> requested])

----------------------------------------------------------------------------
(* The list as printGraph builds it, lines 170-175 *)

EmptyLedger == <<[node |-> HeadNode, sz |-> 0, mem |-> NULL]>>

NoCfg == [maxMemory |-> 0, minY |-> 0, maxY |-> 1, minX |-> 0, maxX |-> 0, step |-> 1]

Init ==
    /\ ledger = EmptyLedger
    /\ nextAddr = HeadNode + 1
    /\ events = <<>>
    /\ calls = <<>>
    /\ pc = "loop"
    /\ x = 0
    /\ totMem = 0
    /\ cfg = NoCfg
    /\ freed = <<>>

\* the caller passes one of Totals, or the sum of the sizes the list holds
Reconcile ==
    /\ Len(calls) < MaxCalls
    /\ \E totalSpace \in Totals \cup {SumSizes(ledger)}, requested \in Totals :
           Call(totalSpace, requested)
    /\ UNCHANGED <<pc, x, totMem, cfg, freed>>

Next == Reconcile

Spec == Init /\ [][Next]_vars

----------------------------------------------------------------------------
(* printGraph *)

\* line 179: mem = (size_t)(((y - minY) / maxY) * (float)maxMemory), for
\* y >= minY and maxY a power of two (in quanta): the subtraction and the
\* division are exact, the product is rounded, the conversion truncates
Target(y) ==
    ToFloat((y - cfg.minY) * ToFloat(cfg.maxMemory)) \div cfg.maxY

\* line 177: x += step in float; x and step are multiples of the quantum,
\* so the sum is rounded as their integer count is
NextX(x0, step) == ToFloat(x0 + step)

\* lines 66-74: the frees destroyMemory makes, in order
RECURSIVE DestroyLoop(_, _, _, _)
DestroyLoop(list, block, memory, log) ==
    IF memory > Len(list) THEN log
    ELSE DestroyLoop(list, memory, memory + 1,
                     log \o (IF list[block].mem # NULL
                             THEN <<FreeEv("mem", list[block].mem)>> ELSE <<>>)
                         \o <<FreeEv("node", list[block].node)>>)

destroyMemory(list) == DestroyLoop(list, 1, 2, <<>>)

TimesFreed(log, kind, addr) ==
    Cardinality({i \in DOMAIN log : log[i] = FreeEv(kind, addr)})

DriverInit ==
    /\ ledger = EmptyLedger
    /\ nextAddr = HeadNode + 1
    /\ events = <<>>
    /\ calls = <<>>
    /\ pc = "loop"
    /\ cfg \in [maxMemory : Budgets, minY : {0, 1}, maxY : {2, 4},
                minX : {0}, maxX : 1..MaxDomain, step : {1, 2}]
    /\ x = cfg.minX
    /\ totMem = 0
    /\ freed = <<>>

\* lines 177-186 without line 185
Step_staleTotal ==
    /\ pc = "loop"
    /\ x <= cfg.maxX
    /\ \E y \in cfg.minY..MaxSample : Call(totMem, Target(y))
    /\ x' = NextX(x, cfg.step)
    /\ UNCHANGED <<pc, totMem, cfg, freed>>

\* lines 177-186: one iteration; the sample y = f(x) is any value of
\* minY..MaxSample
Step ==
    /\ pc = "loop"
    /\ x <= cfg.maxX
    /\ \E y \in cfg.minY..MaxSample :
           /\ Call(totMem, Target(y))
           /\ totMem' = Target(y)
    /\ x' = NextX(x, cfg.step)
    /\ UNCHANGED <<pc, cfg, freed>>

\* lines 188-189: destroyMemory(memory); free(memory).  Freeing the head a
\* second time is undefined: the run goes on or is aborted
Teardown ==
    /\ pc = "loop"
    /\ x > cfg.maxX
    /\ freed' = Append(destroyMemory(ledger), FreeEv("node", ledger[1].node))
    /\ pc' \in (IF TimesFreed(freed', "node", ledger[1].node) > 1
                THEN {"done", "crashed"} ELSE {"done"})
    /\ UNCHANGED <<ledger, nextAddr, events, calls, x, totMem, cfg>>

DriverNext == Step \/ Teardown

DriverSpec == DriverInit /\ [][DriverNext]_vars

----------------------------------------------------------------------------
(* printGraph with a sample function, run without a bound on its length *)

\* line 178: y = f(x), for two functions f of bounded range: a constant and
\* a sawtooth of x
Sample(f, x0) == IF f = "flat" THEN cfg.minY ELSE cfg.minY + (x0 % 3)

\* the domains start at 0 or where the quantum is half the spacing of float
TermInit ==
    /\ ledger = EmptyLedger
    /\ nextAddr = HeadNode + 1
    /\ events = <<>>
    /\ calls = <<>>
    /\ pc = "loop"
    /\ \E minX \in {0, FloatMantissa}, width \in 0..MaxDomain :
           cfg \in [maxMemory : TermBudgets, minY : {0, 1}, maxY : {2, 4},
                    minX : {minX}, maxX : {minX + width}, step : 0..MaxStep,
                    f : {"flat", "saw"}]
    /\ x = cfg.minX
    /\ totMem = 0
    /\ freed = <<>>

\* lines 177-186: one iteration; calls keeps the last MaxKept calls at
\* most and starts over when it is full, so that every iteration is a step
TermStep ==
    /\ pc = "loop"
    /\ x <= cfg.maxX
    /\ LET mem == Target(Sample(cfg.f, x))
           r == reallocMemory(Entry(0), totMem, mem)
       IN  /\ ledger' = r.list
           /\ nextAddr' = r.next
           /\ events' = r.log
           /\ calls' = (IF Len(calls) < MaxKept THEN calls ELSE <<>>)
                            \o <<[totalSpace |-> totMem, requested |-> mem]>>
           /\ totMem' = mem
    /\ x' = NextX(x, cfg.step)
    /\ UNCHANGED <<pc, cfg, freed>>

TermNext == TermStep \/ Teardown

\* the program is the only thread and always takes its next step
TermSpec ==
    TermInit /\ [][TermNext]_vars /\ WF_vars(TermStep) /\ WF_vars(Teardown)

----------------------------------------------------------------------------
(* reallocMemory when malloc can return NULL *)

\* a call in which the oom-th malloc returns NULL (none when oom = 0 or the
\* call makes fewer mallocs); a write through a NULL node aborts the run
FailReconcile ==
    /\ pc = "loop"
    /\ Len(calls) < MaxFailCalls
    /\ \E totalSpace \in FailTotals \cup {SumSizes(ledger)},
          requested \in FailTotals, oom \in 0..MaxOom :
           LET r == reallocMemory(Entry(oom), totalSpace, requested)
           IN  /\ ledger' = r.list
               /\ nextAddr' = r.next
               /\ events' = r.log
               /\ calls' = Append(calls, [totalSpace |-> totalSpace,
                                          requested |-> requested])
               /\ pc' = IF r.fault THEN "crashed" ELSE "loop"
    /\ UNCHANGED <<x, totMem, cfg, freed>>

FailNext == FailReconcile

FailSpec == Init /\ [][FailNext]_vars

----------------------------------------------------------------------------
(* Properties *)

Last(seq) == seq[Len(seq)]

\* a reallocMemory call is made in this step
Called == Len(calls') = Len(calls) + 1

Mallocs(log) == {i \in DOMAIN log : log[i].op = "malloc"}
Frees(log) == {i \in DOMAIN log : log[i].op = "free"}
SubCalls(log) == {i \in DOMAIN log : i > 1 /\ log[i].op = "call"}

\* C1 (DriverSpec): after every step of the loop, the sizes of the blocks
\* that hold memory add up to the total the loop last requested.
C1_LedgerTotal == pc = "loop" => LiveTotal(ledger) = totMem

\* C2 (Spec): growing the empty list from 0 to N > 0 and then shrinking from
\* N to 0 leaves total 0 and no block with a non-null handle.
C2_RoundTrip ==
    (/\ Len(calls) = 2
     /\ calls[1].totalSpace = 0
     /\ calls[1].requested > 0
     /\ calls[2].totalSpace = calls[1].requested
     /\ calls[2].requested = 0)
    => /\ LiveTotal(ledger) = 0
       /\ \A i \in DOMAIN ledger : ledger[i].mem = NULL

\* C3 (Spec): a shrink called with totalSpace equal to the sum of the block
\* sizes, and requested below it, leaves the sum equal to requested.
C3_ShrinkExact ==
    [][(/\ Called
        /\ SumSizes(ledger) = Last(calls').totalSpace
        /\ Last(calls').requested < Last(calls').totalSpace)
       => SumSizes(ledger') = Last(calls').requested]_vars

\* C3 witness: a shrink that released a block whole, trimmed another one
\* and met the requested total.
C3_Witness ==
    /\ calls # <<>>
    /\ Last(calls).requested < Last(calls).totalSpace
    /\ \E i \in Frees(events) : events[i].kind = "node"
    /\ Mallocs(events) # {}
    /\ SumSizes(ledger) = Last(calls).requested
    /\ Last(calls).requested > 0

\* C4 (DriverSpec): when the run is over, every block of the list has had
\* its node freed exactly once and its non-null handle freed exactly once,
\* and the head's node is the last thing freed.
C4_TeardownExactlyOnce ==
    pc # "loop" =>
        /\ \A i \in DOMAIN ledger :
               /\ TimesFreed(freed, "node", ledger[i].node) = 1
               /\ ledger[i].mem # NULL => TimesFreed(freed, "mem", ledger[i].mem) = 1
        /\ Last(freed) = FreeEv("node", HeadNode)
        /\ pc = "done"

\* C5 (DriverSpec): with minY = 0 and every requested total within the
\* budget, the blocks never hold more bytes than the budget.
C5_BudgetBound ==
    (/\ cfg.minY = 0
     /\ \A i \in DOMAIN calls : calls[i].requested <= cfg.maxMemory)
    => LiveTotal(ledger) <= cfg.maxMemory

\* the record a released head is left as
Tombstone == [node |-> HeadNode, sz |-> 0, mem |-> NULL]

\* C6 (Spec): no call unlinks or frees the head node: it stays the first
\* block of the list, and a shrink that releases the head's whole region
\* leaves it first with a null handle and size 0.
C6_HeadPersistence ==
    [][Called =>
        /\ Len(ledger') >= 1
        /\ ledger'[1].node = HeadNode
        /\ \A i \in 2..Len(ledger') : ledger'[i].node # HeadNode
        /\ \A i \in Frees(events') : events'[i] # FreeEv("node", HeadNode)
        /\ (/\ Last(calls').requested < Last(calls').totalSpace
            /\ ledger[1].mem # NULL
            /\ ledger[1].sz <= Last(calls').totalSpace - Last(calls').requested)
           => ledger'[1] = Tombstone]_vars

\* C6 witness: a shrink has first released the head's whole region (a free
\* of memory that no free of a node follows directly), and the head is
\* still the first block, with other blocks behind it.
C6_Witness ==
    /\ Len(calls) >= 2
    /\ Last(calls).requested < Last(calls).totalSpace
    /\ Len(events) >= 2
    /\ events[2] \in {FreeEv("mem", a) : a \in 1..nextAddr}
    /\ Len(events) >= 3 => events[3].kind = "mem"
    /\ ledger[1] = Tombstone
    /\ Len(ledger) >= 2

\* C7 (Spec): a call with requested = totalSpace leaves the list unchanged
\* and makes no malloc and no free.
C7_Idempotent ==
    [][(Called /\ Last(calls').totalSpace = Last(calls').requested)
       => /\ ledger' = ledger
          /\ nextAddr' = nextAddr
          /\ Mallocs(events') = {}
          /\ Frees(events') = {}]_vars

\* C7 witness: the last call had requested = totalSpace > 0 on a list that
\* holds several blocks.
C7_Witness ==
    /\ Len(calls) >= 2
    /\ Last(calls).totalSpace = Last(calls).requested
    /\ Last(calls).requested > 0
    /\ Len(ledger) >= 2
    /\ Len(events) = 1

\* C8 (Spec): a growth by delta > ceiling on a list whose head holds a
\* handle adds blocks whose sizes sum to exactly delta.
C8_ChunkSum ==
    [][(/\ Called
        /\ ledger[1].mem # NULL
        /\ Last(calls').requested - Last(calls').totalSpace > Ceiling)
       => SumSizes(ledger') - SumSizes(ledger)
              = Last(calls').requested - Last(calls').totalSpace]_vars

CeilDiv(a, b) == (a + b - 1) \div b

\* C9 (Spec): a growth by delta > ceiling is carried out as exactly
\* ceil(delta / ceiling) sub-calls, each a growth of at most the ceiling.
C9_ChunkCount ==
    (/\ calls # <<>>
     /\ Last(calls).requested - Last(calls).totalSpace > Ceiling)
    => /\ Cardinality(SubCalls(events))
              = CeilDiv(Last(calls).requested - Last(calls).totalSpace, Ceiling)
       /\ \A i \in SubCalls(events) :
              /\ events[i].requested > events[i].totalSpace
              /\ events[i].requested - events[i].totalSpace <= Ceiling

\* C10 (Spec): no malloc of block memory made by a call is larger than the
\* ceiling, and no block is larger than the ceiling.
C10_ChunkCeiling ==
    /\ \A i \in DOMAIN ledger : ledger[i].sz <= Ceiling
    /\ \A i \in Mallocs(events) : events[i].sz <= Ceiling

\* C10 witness: a split growth has just made blocks of exactly the ceiling.
C10_Witness ==
    /\ calls # <<>>
    /\ Last(calls).requested - Last(calls).totalSpace > Ceiling
    /\ \E i \in DOMAIN ledger : ledger[i].sz = Ceiling
    /\ \E i \in Mallocs(events) : events[i].sz = Ceiling

FailedMallocs(log) == {i \in Mallocs(log) : log[i].addr = NULL}

\* C11 (FailSpec): when a malloc of a call returns NULL the call ends there
\* in a fatal outcome: it makes nothing after the failed malloc, it does not
\* return normally, and no block is left with a non-zero size and a null
\* handle.
C11_FailureSignalled ==
    /\ FailedMallocs(events) # {} =>
           /\ pc = "crashed"
           /\ \A i \in FailedMallocs(events) : i = Len(events)
    /\ pc = "loop" => \A i \in DOMAIN ledger : ledger[i].mem = NULL => ledger[i].sz = 0

\* the growth a call asks for
Delta(c) == c.requested - c.totalSpace

\* C12 (Spec): a growth by 0 < delta <= ceiling makes exactly one malloc of
\* block memory, of delta bytes: on a head with a null handle it fills the
\* head and adds no block; otherwise it leaves the head as it is and inserts
\* one block of delta bytes right after it.  The sum of sizes grows by delta.
C12_SingleAllocation ==
    [][(Called /\ Delta(Last(calls')) > 0 /\ Delta(Last(calls')) <= Ceiling)
       => /\ Cardinality({i \in Mallocs(events') : events'[i].kind = "mem"}) = 1
          /\ \A i \in Mallocs(events') :
                 events'[i].kind = "mem" => events'[i].sz = Delta(Last(calls'))
          /\ IF ledger[1].mem = NULL
             THEN /\ Len(ledger') = Len(ledger)
                  /\ ledger'[1].sz = Delta(Last(calls'))
                  /\ ledger'[1].mem # NULL
                  /\ Tail(ledger') = Tail(ledger)
             ELSE /\ Len(ledger') = Len(ledger) + 1
                  /\ ledger'[1] = ledger[1]
                  /\ ledger'[2].sz = Delta(Last(calls'))
                  /\ ledger'[2].mem # NULL
                  /\ Tail(Tail(ledger')) = Tail(ledger)
          /\ SumSizes(ledger') = SumSizes(ledger) + Delta(Last(calls'))]_vars

\* a call that shrinks
IsShrink(c) == c.requested < c.totalSpace

\* the nodes of the blocks of a list
Nodes(list) == {list[j].node : j \in DOMAIN list}

\* the nodes of the list, in order, that are in the set
NodesKept(list, nodes) ==
    LET In(b) == b.node \in nodes
        kept == SelectSeq(list, In)
    IN  [j \in DOMAIN kept |-> kept[j].node]

\* the blocks that are in both lists are in the same order in both
OrderKept(old, new) == NodesKept(old, Nodes(new)) = NodesKept(new, Nodes(old))

\* the non-head blocks of old that are in new as they were
Intact(old, new) ==
    LET stay == {new[j] : j \in 2..Len(new)}
    IN  {i \in 2..Len(old) : old[i] \in stay}

\* the nodes of the non-head blocks of old that new no longer holds as they
\* were (released or trimmed)
Touched(old, new) == {old[i].node : i \in (2..Len(old)) \ Intact(old, new)}

\* C13 as claimed (Spec): a shrink releases non-head blocks oldest first:
\* when a non-head block is released or trimmed, no non-head block allocated
\* before it is still intact; and no call changes the order of the blocks
\* that stay.
C13_OldestFirst ==
    [][Called =>
        /\ OrderKept(ledger, ledger')
        /\ IsShrink(Last(calls')) =>
               \A n \in Touched(ledger, ledger') :
                   \A k \in Intact(ledger, ledger') : ~(ledger[k].node < n)]_vars

\* C13 as amended (Spec): a shrink releases non-head blocks newest first:
\* when a non-head block is released or trimmed, no non-head block with a
\* non-null handle allocated after it is still intact; and no call changes
\* the order of the blocks that stay.
C13_NewestFirst ==
    [][Called =>
        /\ OrderKept(ledger, ledger')
        /\ IsShrink(Last(calls')) =>
               \A n \in Touched(ledger, ledger') :
                   \A k \in Intact(ledger, ledger') :
                       ledger[k].mem # NULL => ~(ledger[k].node > n)]_vars

\* C13 witness: a shrink has released a non-head block while at least two
\* non-head blocks, all of them allocated before it, stay in the list.
C13_Witness ==
    /\ calls # <<>>
    /\ IsShrink(Last(calls))
    /\ Len(ledger) >= 3
    /\ \E i \in Frees(events) :
           /\ events[i].kind = "node"
           /\ \A j \in 2..Len(ledger) : ledger[j].node < events[i].addr

\* C14 (Spec): a block has a null handle exactly when its size is 0, and
\* only the head can be such a block: every block behind the head has a
\* non-null handle and a size above 0.
C14_HandleSize ==
    /\ \A i \in DOMAIN ledger : ledger[i].mem = NULL <=> ledger[i].sz = 0
    /\ \A i \in 2..Len(ledger) : ledger[i].mem # NULL /\ ledger[i].sz > 0

\* C14 witness: a shrink has released the head's region, which leaves the
\* head with a null handle and size 0, and has trimmed a block behind it.
C14_Witness ==
    /\ calls # <<>>
    /\ IsShrink(Last(calls))
    /\ ledger[1].mem = NULL
    /\ ledger[1].sz = 0
    /\ \E i \in Mallocs(events) : \E j \in 2..Len(ledger) :
           ledger[j].mem = events[i].addr /\ ledger[j].sz = events[i].sz

\* the head after its region was released (as it was, if it held none)
Released(head) == [head EXCEPT !.mem = NULL, !.sz = 0]

\* old becomes new by a walk that releases the blocks 1..k whole, then trims
\* the block k+1 by what is left of delta, or stops there with nothing left
\* (or at the end of the list); the blocks behind are as they were
WalkTo(old, new, log, delta, k) ==
    LET gone == Len(old) - Len(new)
        rest == delta - LiveTotal(SubSeq(old, 1, k))
        trims == Mallocs(log)
    IN  /\ gone = (IF k >= 2 THEN k - 1 ELSE 0)
        /\ rest >= 0
        /\ k >= 1 => new[1] = Released(old[1])
        /\ IF rest > 0 /\ k < Len(old)
           THEN /\ trims = {Len(log)}
                /\ new[k + 1 - gone].node = old[k + 1].node
                /\ new[k + 1 - gone].sz = old[k + 1].sz - rest
                /\ new[k + 1 - gone].mem = log[Len(log)].addr
                /\ \A j \in (k + 2)..Len(old) : new[j - gone] = old[j]
           ELSE /\ trims = {}
                /\ \A j \in (k + 1)..Len(old) : new[j - gone] = old[j]

\* C15 (Spec): a shrink walk stops when nothing is left of delta or when it
\* has trimmed a block: it trims at most one block, which keeps its place
\* with its size reduced by what was left of delta, and every block behind
\* the point where it stopped keeps its size, handle and place.
C15_ShrinkFrame ==
    [][(Called /\ IsShrink(Last(calls')))
       => /\ Cardinality(Mallocs(events')) <= 1
          /\ \E k \in 0..Len(ledger) :
                 WalkTo(ledger, ledger', events', -Delta(Last(calls')), k)]_vars

\* C15 witness: a shrink has released a block behind the head, then trimmed
\* a block, and at least one block behind the trimmed one is in the list.
C15_Witness ==
    /\ calls # <<>>
    /\ IsShrink(Last(calls))
    /\ \E i \in Frees(events) : events[i].kind = "node"
    /\ Mallocs(events) = {Len(events)}
    /\ \E j \in 2..(Len(ledger) - 1) : ledger[j].mem = events[Len(events)].addr

\* C16 (DriverSpec): every step of the loop makes exactly one call, on the
\* list as the call before left it; the first call is passed totalSpace 0
\* and every later call the requested total of the call before; the
\* teardown comes after the last step and no call follows it.
C16_Sequencing ==
    [][/\ Called <=> x' # x
       /\ Called =>
              /\ pc = "loop" /\ pc' = "loop"
              /\ x <= cfg.maxX
              /\ Last(calls').totalSpace
                     = (IF calls = <<>> THEN 0 ELSE Last(calls).requested)
              /\ ledger' = reallocMemory(Entry(0), Last(calls').totalSpace,
                                         Last(calls').requested).list
       /\ ~Called =>
              /\ ledger' = ledger
              /\ calls' = calls
              /\ pc = "loop" /\ pc' # "loop"
              /\ x > cfg.maxX]_vars

\* C16 witness: a run is over after three calls, the later ones passed
\* the non-zero totals requested before them.
C16_Witness ==
    /\ pc = "done"
    /\ Len(calls) = 3
    /\ calls[1].requested > 0
    /\ calls[2].totalSpace = calls[1].requested
    /\ calls[2].requested > calls[2].totalSpace
    /\ calls[3].totalSpace = calls[2].requested
    /\ calls[3].requested < calls[3].totalSpace

\* C17 (TermSpec): with step > 0 the run leaves the loop and reaches the
\* teardown; with step = 0 and minX <= maxX it never does.
C17_Termination ==
    /\ cfg.step > 0 => <>(pc # "loop")
    /\ (cfg.step = 0 /\ cfg.minX <= cfg.maxX) => [](pc = "loop")

====
